---- MODULE Spec2Model ----
(***************************************************************************)
(* Model of the ferro string runtime (packages/ferro/src/runtime.c):       *)
(* fs_string_alloc, fs_string_from_literal, fs_string_concat and           *)
(* fs_print_string over the struct fs_String { char* ptr; int len; int     *)
(* cap; }.                                                                 *)
(*                                                                         *)
(* Memory is a sequence of buffers; an address is an index into it and 0   *)
(* is the null pointer.  Buffer 1 is the literal data of the calling       *)
(* program, every other buffer comes from malloc.  A cell of a buffer is a *)
(* byte, or Indeterminate for a byte malloc returned and nobody wrote.     *)
(* The C int is scaled from 32 bits to IntBits bits and size_t from 64 to  *)
(* 2 * IntBits bits; int arithmetic wraps.                                 *)
(***************************************************************************)
EXTENDS Integers, Sequences, FiniteSets, TLC

\* ------------------------------------------------------------------ bounds
IntBits == 4
MaxLit == 2
MaxVals == 3
MaxPrints == 1

\* ------------------------------------------------------- machine integers
INT_MAX == 2^(IntBits - 1) - 1
INT_MIN == 0 - 2^(IntBits - 1)

\* the value an int holds after an arithmetic result v (two's complement)
WrapInt(v) == ((v - INT_MIN) % 2^IntBits) + INT_MIN

SizeBits == 2 * IntBits

\* conversion of an int argument to size_t
ToSizeT(v) == v % 2^SizeBits

\* no object is larger than PTRDIFF_MAX bytes: malloc refuses such requests.
\* A negative int converted to size_t is above it, with a size_t of twice the
\* width of int as with one of the same width.
PTRDIFF_MAX == 2^(SizeBits - 1) - 1

\* ------------------------------------------------------------------ bytes
NULL == 0
NUL == 0
NL == 10
Bytes == {0, 97, 98}
Indeterminate == 0 - 1
NullText == <<40, 110, 117, 108, 108, 41>>

RECURSIVE SeqsOfLen(_)
SeqsOfLen(n) ==
  IF n = 0 THEN {<<>>}
  ELSE {Append(q, b) : q \in SeqsOfLen(n - 1), b \in Bytes}

\* the literal data of the calling program: MaxLit bytes, any of which a call
\* may point into
Literals == SeqsOfLen(MaxLit)

\* the sizes the caller asks fs_string_alloc for: non-negative, up to the
\* largest int
AllocSizes == {0, 1, INT_MAX}

\* address of the literal data of the calling program
RODATA == 1

VARIABLES
  mem,     \* memory: sequence of buffers, address = index
  vals,    \* the fs_String structs the caller holds, in order of return
  stdout,  \* bytes written to standard output
  last,    \* the last call: operation, arguments, malloc requests
  ub,      \* an access outside a buffer has happened
  pc       \* position of the scripted caller (0: unscripted)

vars == <<mem, vals, stdout, last, ub, pc>>

\* ----------------------------------------------------------------- memory
malloc(m, req, ok) ==
  IF ok /\ req <= PTRDIFF_MAX
  THEN [mem |-> Append(m, [k \in 1..req |-> Indeterminate]), ptr |-> Len(m) + 1]
  ELSE [mem |-> m, ptr |-> NULL]

\* p[i] is inside the buffer p points to
InBuf(m, p, i) == i >= 0 /\ i < Len(m[p])

\* p[i] = b
Store(m, p, i, b) ==
  IF InBuf(m, p, i) THEN [m EXCEPT ![p] = [@ EXCEPT ![i + 1] = b]] ELSE m

\* both ranges of memcpy(dst + doff, src + soff, n) are inside their buffers
CanCopy(m, dst, doff, src, soff, n) ==
  /\ n >= 0 /\ doff >= 0 /\ soff >= 0
  /\ doff + n <= Len(m[dst])
  /\ soff + n <= Len(m[src])

memcpy(m, dst, doff, src, soff, n) ==
  IF CanCopy(m, dst, doff, src, soff, n)
  THEN [m EXCEPT ![dst] =
          [k \in 1..Len(@) |->
             IF k > doff /\ k <= doff + n THEN m[src][soff + (k - doff)] ELSE @[k]]]
  ELSE m

\* ------------------------------------------------------------- runtime.c
\* fs_string_alloc asking malloc for size bytes, without the terminator's
fs_string_alloc_exact(m, size, ok) ==
  LET req == ToSizeT(size)
      a == malloc(m, req, ok)
  IN [mem |-> IF a.ptr # NULL THEN Store(a.mem, a.ptr, 0, NUL) ELSE a.mem,
      ret |-> [ptr |-> a.ptr, len |-> 0, cap |-> size],
      reqs |-> <<req>>,
      ub |-> a.ptr # NULL /\ ~InBuf(a.mem, a.ptr, 0)]

fs_string_alloc(m, size, ok) ==
  LET req == ToSizeT(WrapInt(size + 1))
      a == malloc(m, req, ok)
  IN [mem |-> IF a.ptr # NULL THEN Store(a.mem, a.ptr, 0, NUL) ELSE a.mem,
      ret |-> [ptr |-> a.ptr, len |-> 0, cap |-> size],
      reqs |-> <<req>>,
      ub |-> a.ptr # NULL /\ ~InBuf(a.mem, a.ptr, 0)]

\* fs_string_from_literal that copies and never sets len
fs_string_from_literal_len_unset(m, data, off, len, ok) ==
  LET a == fs_string_alloc(m, len, ok)
      s == a.ret
  IN IF s.ptr # NULL
     THEN [mem |-> Store(memcpy(a.mem, s.ptr, 0, data, off, len), s.ptr, len, NUL),
           ret |-> s,
           reqs |-> a.reqs,
           ub |-> \/ a.ub
                  \/ ~CanCopy(a.mem, s.ptr, 0, data, off, len)
                  \/ ~InBuf(a.mem, s.ptr, len)]
     ELSE a

\* data + off is the pointer the caller passes
fs_string_from_literal(m, data, off, len, ok) ==
  LET a == fs_string_alloc(m, len, ok)
      s == a.ret
  IN IF s.ptr # NULL
     THEN [mem |-> Store(memcpy(a.mem, s.ptr, 0, data, off, len), s.ptr, len, NUL),
           ret |-> [s EXCEPT !.len = len],
           reqs |-> a.reqs,
           ub |-> \/ a.ub
                  \/ ~CanCopy(a.mem, s.ptr, 0, data, off, len)
                  \/ ~InBuf(a.mem, s.ptr, len)]
     ELSE a

\* fs_string_concat whose second copy lands at offset 0
fs_string_concat_overlap(m, s1, s2, ok) ==
  LET new_len == WrapInt(s1.len + s2.len)
      a == fs_string_alloc(m, new_len, ok)
      s == a.ret
      m1 == IF s1.ptr # NULL THEN memcpy(a.mem, s.ptr, 0, s1.ptr, 0, s1.len) ELSE a.mem
      m2 == IF s2.ptr # NULL THEN memcpy(m1, s.ptr, 0, s2.ptr, 0, s2.len) ELSE m1
  IN IF s.ptr # NULL
     THEN [mem |-> Store(m2, s.ptr, new_len, NUL),
           ret |-> [s EXCEPT !.len = new_len],
           reqs |-> a.reqs,
           ub |-> a.ub \/ ~InBuf(a.mem, s.ptr, new_len),
           s1 |-> s1, s2 |-> s2]
     ELSE [mem |-> a.mem, ret |-> s, reqs |-> a.reqs, ub |-> a.ub, s1 |-> s1, s2 |-> s2]

\* fs_string_concat whose first memcpy has source and destination swapped
fs_string_concat_swapped(m, s1, s2, ok) ==
  LET new_len == WrapInt(s1.len + s2.len)
      a == fs_string_alloc(m, new_len, ok)
      s == a.ret
      m1 == IF s1.ptr # NULL THEN memcpy(a.mem, s1.ptr, 0, s.ptr, 0, s1.len) ELSE a.mem
      m2 == IF s2.ptr # NULL THEN memcpy(m1, s.ptr, s1.len, s2.ptr, 0, s2.len) ELSE m1
  IN IF s.ptr # NULL
     THEN [mem |-> Store(m2, s.ptr, new_len, NUL),
           ret |-> [s EXCEPT !.len = new_len],
           reqs |-> a.reqs,
           ub |-> a.ub \/ ~InBuf(a.mem, s.ptr, new_len),
           s1 |-> s1, s2 |-> s2]
     ELSE [mem |-> a.mem, ret |-> s, reqs |-> a.reqs, ub |-> a.ub, s1 |-> s1, s2 |-> s2]

\* fs_string_concat that sizes the result by capacities: new_len from cap
fs_string_concat_by_cap(m, s1, s2, ok) ==
  LET new_len == WrapInt(s1.cap + s2.cap)
      a == fs_string_alloc(m, new_len, ok)
      s == a.ret
      m1 == IF s1.ptr # NULL THEN memcpy(a.mem, s.ptr, 0, s1.ptr, 0, s1.len) ELSE a.mem
      m2 == IF s2.ptr # NULL THEN memcpy(m1, s.ptr, s1.cap, s2.ptr, 0, s2.len) ELSE m1
  IN IF s.ptr # NULL
     THEN [mem |-> Store(m2, s.ptr, new_len, NUL),
           ret |-> [s EXCEPT !.len = new_len],
           reqs |-> a.reqs,
           ub |-> a.ub \/ ~InBuf(a.mem, s.ptr, new_len),
           s1 |-> s1, s2 |-> s2]
     ELSE [mem |-> a.mem, ret |-> s, reqs |-> a.reqs, ub |-> a.ub, s1 |-> s1, s2 |-> s2]

\* fs_string_concat that hands back the first input when the second is empty
fs_string_concat_reuse(m, s1, s2, ok) ==
  LET new_len == WrapInt(s1.len + s2.len)
      a == fs_string_alloc(m, new_len, ok)
      s == a.ret
      m1 == IF s1.ptr # NULL THEN memcpy(a.mem, s.ptr, 0, s1.ptr, 0, s1.len) ELSE a.mem
      m2 == IF s2.ptr # NULL THEN memcpy(m1, s.ptr, s1.len, s2.ptr, 0, s2.len) ELSE m1
  IN IF s2.len = 0
     THEN [mem |-> m, ret |-> s1, reqs |-> <<>>, ub |-> FALSE, s1 |-> s1, s2 |-> s2]
     ELSE IF s.ptr # NULL
     THEN [mem |-> Store(m2, s.ptr, new_len, NUL),
           ret |-> [s EXCEPT !.len = new_len],
           reqs |-> a.reqs,
           ub |-> a.ub \/ ~InBuf(a.mem, s.ptr, new_len),
           s1 |-> s1, s2 |-> s2]
     ELSE [mem |-> a.mem, ret |-> s, reqs |-> a.reqs, ub |-> a.ub, s1 |-> s1, s2 |-> s2]

\* the structs s1 and s2 point to are handed back as the call leaves them
fs_string_concat(m, s1, s2, ok) ==
  LET new_len == WrapInt(s1.len + s2.len)
      a == fs_string_alloc(m, new_len, ok)
      s == a.ret
      m1 == IF s1.ptr # NULL THEN memcpy(a.mem, s.ptr, 0, s1.ptr, 0, s1.len) ELSE a.mem
      m2 == IF s2.ptr # NULL THEN memcpy(m1, s.ptr, s1.len, s2.ptr, 0, s2.len) ELSE m1
  IN IF s.ptr # NULL
     THEN [mem |-> Store(m2, s.ptr, new_len, NUL),
           ret |-> [s EXCEPT !.len = new_len],
           reqs |-> a.reqs,
           ub |-> \/ a.ub
                  \/ s1.ptr # NULL /\ ~CanCopy(a.mem, s.ptr, 0, s1.ptr, 0, s1.len)
                  \/ s2.ptr # NULL /\ ~CanCopy(a.mem, s.ptr, s1.len, s2.ptr, 0, s2.len)
                  \/ ~InBuf(a.mem, s.ptr, new_len),
           s1 |-> s1, s2 |-> s2]
     ELSE [mem |-> a.mem, ret |-> s, reqs |-> a.reqs, ub |-> a.ub, s1 |-> s1, s2 |-> s2]

\* what printf("%.*s", n, buf + i) can write: at most n bytes (all of them
\* when n is negative), stopping before the first zero byte; an indeterminate
\* byte reads as any byte
RECURSIVE Formatted(_, _, _)
Formatted(buf, i, n) ==
  IF n = 0 \/ i >= Len(buf) THEN {<<>>}
  ELSE LET c == buf[i + 1]
           read == IF c = Indeterminate THEN Bytes ELSE {c}
       IN UNION {IF b = NUL THEN {<<>>}
                 ELSE {<<b>> \o rest : rest \in Formatted(buf, i + 1, n - 1)} : b \in read}

\* the outputs fs_print_string(s) can produce
fs_print_string(m, s) ==
  IF s.ptr # NULL
  THEN {text \o <<NL>> : text \in Formatted(m[s.ptr], 0, s.len)}
  ELSE {NullText \o <<NL>>}

\* ---------------------------------------------------------------- actions
Call(op, x, y, reqs) ==
  [op |-> op, x |-> x, y |-> y, reqs |-> reqs, mark |-> Len(stdout)]

Init ==
  /\ \E lit \in Literals : mem = <<lit>>
  /\ vals = <<>>
  /\ stdout = <<>>
  /\ last = [op |-> "init", x |-> 0, y |-> 0, reqs |-> <<>>, mark |-> 0]
  /\ ub = FALSE
  /\ pc = 0

\* the caller keeps the returned struct
Return(op, x, y, r) ==
  /\ mem' = r.mem
  /\ vals' = Append(vals, r.ret)
  /\ ub' = r.ub
  /\ last' = Call(op, x, y, r.reqs)
  /\ UNCHANGED stdout

Alloc(size, ok) ==
  /\ ~ub
  /\ Return("alloc", size, 0, fs_string_alloc(mem, size, ok))

\* the caller passes a pointer to at least len readable bytes
FromLiteral(off, len, ok) ==
  /\ ~ub
  /\ off + len <= Len(mem[RODATA])
  /\ Return("literal", off, len, fs_string_from_literal(mem, RODATA, off, len, ok))

\* the caller's structs i and j are as the call leaves them
ReturnConcat(i, j, r) ==
  /\ mem' = r.mem
  /\ vals' = Append([k \in 1..Len(vals) |->
                       IF k = j THEN r.s2 ELSE IF k = i THEN r.s1 ELSE vals[k]], r.ret)
  /\ ub' = r.ub
  /\ last' = Call("concat", i, j, r.reqs)
  /\ UNCHANGED stdout

Concat(i, j, ok) ==
  /\ ~ub
  /\ i \in 1..Len(vals) /\ j \in 1..Len(vals)
  /\ ReturnConcat(i, j, fs_string_concat(mem, vals[i], vals[j], ok))

\* the print calls made so far
Printed == Cardinality({k \in 1..Len(stdout) : stdout[k] = NL})

PrintString(i) ==
  /\ ~ub
  /\ i \in 1..Len(vals)
  /\ \E text \in fs_print_string(mem, vals[i]) : stdout' = stdout \o text
  /\ last' = Call("print", i, 0, <<>>)
  /\ UNCHANGED <<mem, vals, ub>>

\* generated code may hold a struct it filled in itself: a null handle with
\* any recorded length
NullValue(len) ==
  /\ ~ub
  /\ vals' = Append(vals, [ptr |-> NULL, len |-> len, cap |-> len])
  /\ last' = Call("caller", len, 0, <<>>)
  /\ UNCHANGED <<mem, stdout, ub>>

Construct ==
  /\ Len(vals) < MaxVals
  /\ \/ \E size \in AllocSizes, ok \in BOOLEAN : Alloc(size, ok)
     \/ \E off \in 0..MaxLit, len \in 0..MaxLit, ok \in BOOLEAN : FromLiteral(off, len, ok)
     \/ \E i \in 1..MaxVals, j \in 1..MaxVals, ok \in BOOLEAN : Concat(i, j, ok)

\* any sequence of allocate, fromLiteral and concatenate calls
Next == Construct /\ UNCHANGED pc

Spec == Init /\ [][Next]_vars

\* ... and print calls
NextPrint ==
  /\ \/ Construct
     \/ Printed < MaxPrints /\ \E i \in 1..MaxVals : PrintString(i)
  /\ UNCHANGED pc

SpecPrint == Init /\ [][NextPrint]_vars

\* ... and structs with a null handle built by the caller
NextNull ==
  /\ \/ Construct
     \/ Len(vals) < MaxVals /\ \E len \in 0..MaxLit : NullValue(len)
  /\ UNCHANGED pc

SpecNull == Init /\ [][NextNull]_vars

\* a caller that builds x, y and z and then concatenates them both ways:
\* vals[4] = x y, vals[5] = (x y) z, vals[6] = y z, vals[7] = x (y z)
First == <<0, 0, 0, 1, 4, 2, 1>>
Second == <<0, 0, 0, 2, 3, 3, 6>>

InitAssoc ==
  /\ \E lit \in Literals : mem = <<lit>>
  /\ vals = <<>>
  /\ stdout = <<>>
  /\ last = [op |-> "init", x |-> 0, y |-> 0, reqs |-> <<>>, mark |-> 0]
  /\ ub = FALSE
  /\ pc = 1

NextAssoc ==
  /\ pc' = pc + 1
  /\ \/ /\ pc \in 1..3
        /\ \/ \E size \in AllocSizes, ok \in BOOLEAN : Alloc(size, ok)
           \/ \E off \in 0..MaxLit, len \in 0..MaxLit, ok \in BOOLEAN : FromLiteral(off, len, ok)
     \/ /\ pc \in 4..7
        /\ \E ok \in BOOLEAN : Concat(First[pc], Second[pc], ok)

SpecAssoc == InitAssoc /\ [][NextAssoc]_vars

\* ------------------------------------------------------------- vocabulary
\* the bytes a value holds: its len bytes from offset 0
Content(s) == SubSeq(mem[s.ptr], 1, s.len)

\* the struct the last call returned, and its arguments
Ret == vals[Len(vals)]
Arg1 == vals[last.x]
Arg2 == vals[last.y]

\* no access outside a buffer happens
NoUB == ~ub
\* ----------------------------------------------------------------- claims
\* C1: concatenating two values with non-null handles, when the new
\* allocation succeeds, returns a value whose length is the sum of the two
\* lengths and whose content is the first content followed by the second.
C1_ConcatContent ==
  (last.op = "concat" /\ Arg1.ptr # NULL /\ Arg2.ptr # NULL /\ Ret.ptr # NULL)
    => /\ Ret.len = Arg1.len + Arg2.len
       /\ Content(Ret) = Content(Arg1) \o Content(Arg2)

C1_Witness ==
  /\ last.op = "concat" /\ last.x # last.y
  /\ Arg1.ptr # NULL /\ Arg2.ptr # NULL /\ Ret.ptr # NULL
  /\ Arg1.len > 0 /\ Arg2.len > 0
  /\ Content(Arg1) \o Content(Arg2) # Content(Arg2) \o Content(Arg1)

\* C2 (as claimed): concatenating a null-handle value, whatever its recorded
\* length, with a value y with a non-null handle returns, when the allocation
\* succeeds, a value whose content is y's content alone.
C2_NullContributesNothing ==
  (last.op = "concat" /\ Arg1.ptr = NULL /\ Arg2.ptr # NULL /\ Ret.ptr # NULL)
    => Content(Ret) = Content(Arg2)

\* the bytes the last call wrote to standard output
Written == SubSeq(stdout, last.mark + 1, Len(stdout))

\* C3 (as claimed): print writes exactly the len bytes of the buffer and a
\* newline when the handle is non-null, whatever the bytes are, and (null)
\* and a newline when it is null.
C3_PrintVerbatim ==
  last.op = "print"
    => Written = IF Arg1.ptr # NULL THEN Content(Arg1) \o <<NL>> ELSE NullText \o <<NL>>

\* C4: every value returned with a non-null handle has a buffer of cap + 1
\* bytes, len <= cap, and the zero terminator at offset len.
C4_Layout ==
  \A k \in 1..Len(vals) :
    vals[k].ptr # NULL
      => /\ Len(mem[vals[k].ptr]) = vals[k].cap + 1
         /\ vals[k].len >= 0 /\ vals[k].len <= vals[k].cap
         /\ mem[vals[k].ptr][vals[k].len + 1] = NUL

C4_Witness ==
  /\ last.op = "concat" /\ Ret.ptr # NULL /\ Ret.len > 0
  /\ \E k \in 1..Len(vals) : vals[k].ptr # NULL /\ vals[k].len < vals[k].cap

\* C5 (as claimed): allocate(n) makes exactly one allocation request, of
\* n + 1 bytes; on success the result has a non-null handle, length 0,
\* capacity n and a zero first byte; on failure a null handle, length 0 and
\* capacity n.
C5_AllocRequest ==
  last.op = "alloc"
    => /\ last.reqs = <<last.x + 1>>
       /\ Ret.len = 0 /\ Ret.cap = last.x
       /\ Ret.ptr # NULL => mem[Ret.ptr][1] = NUL

\* C6: fromLiteral(b, n) returns, when the allocation succeeds, a value of
\* length n and capacity n whose bytes 0..n-1 are b's; when it fails, the
\* failed value (null handle, length 0, capacity n), and memory is as before.
C6_FromLiteral ==
  [][(last'.op = "literal" /\ vals' # vals)
       => IF vals'[Len(vals')].ptr # NULL
          THEN /\ vals'[Len(vals')].len = last'.y
               /\ vals'[Len(vals')].cap = last'.y
               /\ SubSeq(mem'[vals'[Len(vals')].ptr], 1, last'.y)
                    = SubSeq(mem[RODATA], last'.x + 1, last'.x + last'.y)
          ELSE /\ vals'[Len(vals')].len = 0
               /\ vals'[Len(vals')].cap = last'.y
               /\ mem' = mem]_vars

C6_Witness ==
  /\ last.op = "literal" /\ Ret.ptr # NULL
  /\ Ret.len = MaxLit /\ last.x = 0
  /\ \E k \in 1..Ret.len : mem[Ret.ptr][k] # NUL

\* C7: concatenate leaves both inputs as they were: handle, length, capacity
\* and every buffer byte, whether the allocation succeeds or fails (the
\* failed result has a null handle and length 0), also when both inputs are
\* the same value.
C7_InputsUnchanged ==
  [][(last'.op = "concat" /\ vals' # vals)
       => /\ \A k \in {last'.x, last'.y} :
               /\ vals'[k] = vals[k]
               /\ vals[k].ptr # NULL => mem'[vals[k].ptr] = mem[vals[k].ptr]
          /\ vals'[Len(vals')].ptr = NULL => vals'[Len(vals')].len = 0]_vars

C7_Witness ==
  /\ last.op = "concat" /\ last.x = last.y
  /\ Arg1.ptr # NULL /\ Arg1.len > 0 /\ Ret.ptr # NULL

\* C8: when every allocation succeeds, (x y) z and x (y z) have the same
\* length and the same content.
C8_Associative ==
  (pc = 8 /\ \A k \in 1..7 : vals[k].ptr # NULL)
    => /\ vals[5].len = vals[7].len
       /\ Content(vals[5]) = Content(vals[7])

C8_Witness ==
  /\ pc = 8 /\ \A k \in 1..7 : vals[k].ptr # NULL
  /\ \A k \in 1..3 : vals[k].len > 0
  /\ Content(vals[1]) # Content(vals[2])

\* C9: no two returned values with non-null handles share a buffer, and
\* none has the literal data as its buffer.
C9_ExclusiveBuffers ==
  \A i \in 1..Len(vals) :
    vals[i].ptr # NULL
      => /\ vals[i].ptr # RODATA
         /\ \A j \in 1..Len(vals) : j # i => vals[j].ptr # vals[i].ptr

C9_Witness ==
  /\ last.op = "concat" /\ last.x # last.y
  /\ Arg1.ptr # NULL /\ Arg2.ptr # NULL /\ Ret.ptr # NULL
  /\ Arg2.len = 0

\* C10 (as claimed): with wrapping int sums, the value concatenate returns
\* for inputs of non-negative length has non-negative length and capacity,
\* and capacity >= length, on success and on failure.
C10_NonNegative ==
  (last.op = "concat" /\ Arg1.len >= 0 /\ Arg2.len >= 0)
    => Ret.len >= 0 /\ Ret.cap >= 0 /\ Ret.cap >= Ret.len
====
